---- MODULE Spec2Model ----
(***************************************************************************)
(* Order / job status workflow of the window-manufacturing backend:        *)
(* the Express handlers of routes/orders and routes/jobs over the          *)
(* Sequelize models Order, Job, JobStatusUpdate and Notification.          *)
(***************************************************************************)
EXTENDS Integers, Sequences, FiniteSets, TLC

\* ---------------------------------------------------------------- bounds
MaxOrders == 1
MaxJobs == 1
MaxStatusUpdates == 5
MaxTime == 2
MaxCreations == 2
MaxSequence == 3
MaxUpdaters == 2
MaxClock == 3
MaxWindow == 2
MaxAttempts == 2

\* NULL in an integer column (ids and instants start at 1); NoStatus is NULL
\* in JobStatusUpdate.previous_status.
NULL == 0

NoStatus == "null"

\* ---------------------------------------------------------------- enums
JobStatuses ==
  {"assigned", "en_route", "arrived", "in_progress", "completed", "cancelled"}

JobTypes == {"measuring", "delivery", "installation"}

OrderStatuses ==
  {"pending", "measuring_scheduled", "measuring_in_progress", "measuring_completed",
   "production_scheduled", "in_production", "production_completed",
   "delivery_scheduled", "in_delivery", "delivered",
   "installation_scheduled", "installation_in_progress", "installation_completed",
   "completed", "cancelled"}

\* The user rows of the deployment: one manager, one supervisor, one
\* installer and one client (roles of the User.role enum).
UserRole == <<"manager", "supervisor", "installer", "client">>

Users == DOMAIN UserRole

\* The client rows: client 1 is the profile of user 4 (Client.user_id).
ClientUser == <<4>>

ClientIds == DOMAIN ClientUser

OrderIds == 1..MaxOrders

JobIds == 1..MaxJobs

\* The client ids a request may carry: the stored ones and one that is not.
ReqClientIds == 1..(Len(ClientUser) + 1)

\* The statuses the body of a PUT /orders/:orderId/status carries in the
\* job workflow's specification (all fifteen in SpecOrders).
ManagedStatuses == {"pending", "in_production", "completed", "cancelled"}

\* The statuses the body of a PUT /jobs/:jobId carries in the model.
EditStatuses == {"completed", "cancelled"}

\* What the foreign keys of the notifications table (related_job_id,
\* related_order_id) do to a DELETE of a jobs or orders row: nothing stands in
\* its way ("ok": no notification points to the row, or the key is SET NULL as
\* in a schema synchronised from the associations), or the statement fails
\* ("violation": a notification points to it under schema.sql's NO ACTION).
FkOutcomes == {"ok", "violation"}

\* ---------------------------------------------------------------- roles
requireAdmin(user) == UserRole[user] \in {"director", "manager"}

requireManagement(user) == UserRole[user] \in {"director", "manager", "supervisor"}

\* A permission that every member of staff has.
canViewAllProjectsStaff(user) == UserRole[user] # "client"

canViewAllProjects(user) == UserRole[user] \in {"director", "manager", "supervisor"}

\* ---------------------------------------------------------------- state
VARIABLES
  orders,         \* orders table: the stored ids -> row
  nextOrderId,    \* primary keys are never reused
  jobs,           \* jobs table: the stored ids -> row
  nextJobId,
  statusUpdates,  \* job_status_updates table, in creation order
  notified,       \* the notifications rows the last request inserted
  now,            \* the clock new Date() reads
  response,       \* the last HTTP response sent
  users,          \* users table: the stored ids (their roles are UserRole)
  clients,        \* clients table: the stored ids (their users are ClientUser)
  creating,       \* the Order instances between beforeCreate and INSERT
  updating,       \* the status-update requests between their checks and their response
  sessions,       \* user_sessions table
  resetTokens,    \* password_reset_tokens table: the stored tokens -> row
  passwords,      \* users.password_hash
  sent,           \* the reset codes delivered by sendEmail / sendSMS
  resetting,      \* the reset-password requests between findValidToken and their response
  loggedOut,      \* the tokens a logout or logout-all has answered 200 for
  redeemed,       \* the reset tokens a reset-password request has answered 200 for, with how often
  limiter         \* a limiter of createRateLimiter: its arguments, its Map, and the times it passed

\* What the authentication routes keep.
auth == <<sessions, resetTokens, passwords, sent, resetting, loggedOut, redeemed, limiter>>

vars ==
  <<orders, nextOrderId, jobs, nextJobId, statusUpdates, notified, now, response,
    users, clients, creating, updating, auth>>

db == <<orders, nextOrderId, jobs, nextJobId, statusUpdates, users, clients>>

\* bcrypt.hash and bcrypt.compare
hash(password) == <<"bcrypt", password>>

compare(password, password_hash) == password_hash = hash(password)

\* The password every user starts with.
InitialPassword == "Passw0rd"

\* No limiter has been built.
NoLimiter == [windowMs |-> 0, max |-> 0, attempts |-> <<>>, passed |-> <<>>]

\* The requests that may be creating an order at the same time.
Creators == 1..MaxCreations

\* Empty tables but for the users and their clients; the sessions are given
\* apart.
InitTables ==
  /\ orders = <<>>
  /\ nextOrderId = 1
  /\ jobs = <<>>
  /\ nextJobId = 1
  /\ statusUpdates = <<>>
  /\ notified = <<>>
  /\ now = 1
  /\ response = [code |-> 0]
  /\ users = Users
  /\ clients = ClientIds
  /\ creating = <<>>
  /\ updating = <<>>
  /\ resetTokens = <<>>
  /\ passwords = [u \in Users |-> hash(InitialPassword)]
  /\ sent = {}
  /\ resetting = <<>>
  /\ loggedOut = {}
  /\ redeemed = <<>>
  /\ limiter = NoLimiter

Init == InitTables /\ sessions = {}

\* Time passes between requests.
Tick ==
  /\ now < MaxTime
  /\ now' = now + 1
  /\ UNCHANGED <<db, notified, response, creating, updating, auth>>

\* ---------------------------------------------------------------- helpers
\* A notifications row (Notification.create)
Notify(user_id, type, job_id, order_id) ==
  [user_id |-> user_id, type |-> type,
   related_job_id |-> job_id, related_order_id |-> order_id]

OrderExists(o) == o \in DOMAIN orders

JobExists(j) == j \in DOMAIN jobs

\* A table with the row of key k inserted, and with the rows of keys ks deleted.
Insert(table, k, row) == [x \in DOMAIN table \cup {k} |-> IF x = k THEN row ELSE table[x]]

Delete(table, ks) == [x \in DOMAIN table \ ks |-> table[x]]

\* What a handler leaves behind: the tables, the notifications it inserted and
\* its response. Kept is the outcome of a handler that writes nothing.
Kept ==
  [orders |-> orders, nextOrderId |-> nextOrderId, jobs |-> jobs,
   nextJobId |-> nextJobId, statusUpdates |-> statusUpdates,
   users |-> users, clients |-> clients,
   notified |-> <<>>, response |-> [code |-> 0]]

\* res.status(code).json({ error }) with nothing written
Refuse(code, error) == [Kept EXCEPT !.response = [code |-> code, error |-> error]]

\* The error of requireRole
Insufficient == "Insufficient permissions"

\* The writes and the response of outcome r.
Write(r) ==
  /\ orders' = r.orders
  /\ nextOrderId' = r.nextOrderId
  /\ jobs' = r.jobs
  /\ nextJobId' = r.nextJobId
  /\ statusUpdates' = r.statusUpdates
  /\ users' = r.users
  /\ clients' = r.clients
  /\ notified' = r.notified
  /\ response' = r.response

\* The step of a handler with outcome r, handled in one piece.
Apply(r) == Write(r) /\ UNCHANGED <<now, creating, updating, auth>>

\* ---------------------------------------------------------------- orders
\* A generator that numbers an order after its own primary key.
orderNumberOfId(id, count) == id

\* The sequence number NNNNNN of order_number WM-YYYY-NNNNNN, as the
\* beforeCreate hook computes it for the instance of primary key id from the
\* count of the year's rows (all the rows of the model are of one year; the
\* Contract hook computes CT-YYYY-NNNNNN the same way).
orderNumber(id, count) == count + 1

\* Order.count() of the beforeCreate hook
orderCount == Cardinality(DOMAIN orders)

\* The Order instance Order.create builds and its hook numbers.
newOrder(id, client_id) ==
  [client_id |-> client_id, status |-> "pending", actual_completion_date |-> NULL,
   order_number |-> orderNumber(id, orderCount)]

\* The checks of POST /orders before Order.create: the outcome that refuses,
\* or Kept when the request passes.
createOrderChecks(user, client_id) ==
  IF ~requireAdmin(user) THEN Refuse(403, Insufficient)
  ELSE IF client_id \notin clients THEN Refuse(404, "Client not found")
  ELSE Kept

\* The INSERT of the instance and what POST /orders does after it; the
\* statement fails when order_number (unique) is that of a stored row.
insertOrder(id, order) ==
  IF \E o \in DOMAIN orders : orders[o].order_number = order.order_number
    THEN Refuse(500, "Failed to create order")
  ELSE [Kept EXCEPT
          !.orders = Insert(orders, id, order),
          !.notified = <<Notify(ClientUser[order.client_id], "general", NULL, id)>>,
          !.response = [code |-> 201]]

\* POST /orders, handled in one piece: the id is a fresh one.
createOrder(user, client_id) ==
  IF createOrderChecks(user, client_id) # Kept THEN createOrderChecks(user, client_id)
  ELSE LET r == insertOrder(nextOrderId, newOrder(nextOrderId, client_id))
       IN IF r.response.code = 201 THEN [r EXCEPT !.nextOrderId = nextOrderId + 1] ELSE r

CreateOrder(user, client_id) ==
  LET r == createOrder(user, client_id)
  IN /\ DOMAIN r.orders \subseteq OrderIds
     /\ Apply(r)

\* POST /orders up to the end of the beforeCreate hook, for a request p that
\* is handled while others are: the instance has its primary key and its
\* number, computed from the rows counted, and is not yet inserted.
BeginCreateOrder(p, user, client_id) ==
  /\ p \notin DOMAIN creating
  /\ nextOrderId <= MaxCreations
  /\ IF createOrderChecks(user, client_id) # Kept
       THEN Apply(createOrderChecks(user, client_id))
     ELSE /\ creating' = [q \in DOMAIN creating \cup {p} |->
                            IF q = p
                              THEN [id |-> nextOrderId, counted |-> DOMAIN orders,
                                    order |-> newOrder(nextOrderId, client_id)]
                            ELSE creating[q]]
          /\ nextOrderId' = nextOrderId + 1
          /\ UNCHANGED <<orders, jobs, nextJobId, statusUpdates, users, clients,
                         notified, now, response, updating, auth>>

\* The rest of POST /orders for request p: the INSERT, the notification and
\* the response.
FinishCreateOrder(p) ==
  /\ p \in DOMAIN creating
  /\ Write(insertOrder(creating[p].id, creating[p].order))
  /\ creating' = [q \in DOMAIN creating \ {p} |-> creating[q]]
  /\ UNCHANGED <<now, updating, auth>>

\* An update that validates: an order that is completed or cancelled stays so.
orderStatusUpdateGuarded(order, status, today) ==
  IF order.status \in {"completed", "cancelled"} THEN order
  ELSE [order EXCEPT
          !.status = status,
          !.actual_completion_date =
             IF status = "completed" THEN today ELSE order.actual_completion_date]

\* An update that stamps the completion date whatever the new status is.
orderStatusUpdateStamping(order, status, today) ==
  [order EXCEPT !.status = status, !.actual_completion_date = today]

\* order.update({status, notes, actual_completion_date}) of PUT /orders/:orderId/status
orderStatusUpdate(order, status, today) ==
  [order EXCEPT
     !.status = status,
     !.actual_completion_date =
        IF status = "completed" THEN today ELSE order.actual_completion_date]

\* PUT /orders/:orderId/status. The response carries the order as written
\* (new_status); its old_status field is left out.
putOrderStatus(orderId, user, status) ==
  IF ~requireManagement(user) THEN Refuse(403, Insufficient)
  ELSE IF ~OrderExists(orderId) THEN Refuse(404, "Order not found")
  ELSE LET order == orders[orderId]
       IN [Kept EXCEPT
             !.orders = [orders EXCEPT ![orderId] = orderStatusUpdate(order, status, now)],
             !.notified = <<Notify(ClientUser[order.client_id], "status_update",
                                   NULL, orderId)>>,
             !.response = [code |-> 200, new_status |-> status]]

\* The body's status passes body('status').isIn([...]).
PutOrderStatus(orderId, user, status) ==
  /\ status \in OrderStatuses
  /\ Apply(putOrderStatus(orderId, user, status))

\* DELETE /orders/:orderId; the jobs of the order and their status updates go
\* with it (onDelete CASCADE).
deleteOrder(orderId, user, fk) ==
  IF ~requireAdmin(user) THEN Refuse(403, Insufficient)
  ELSE IF ~OrderExists(orderId) THEN Refuse(404, "Order not found")
  ELSE IF orders[orderId].status # "pending" THEN Refuse(400, "Only pending orders can be deleted")
  ELSE IF fk = "violation" THEN Refuse(500, "Failed to delete order")
  ELSE LET gone == {j \in DOMAIN jobs : jobs[j].order_id = orderId}
       IN [Kept EXCEPT
             !.orders = Delete(orders, {orderId}),
             !.jobs = Delete(jobs, gone),
             !.statusUpdates = SelectSeq(statusUpdates, LAMBDA r : r.job_id \notin gone),
             !.response = [code |-> 200]]

\* The foreign keys come into play only when the handler reaches order.destroy().
DeleteOrder(orderId, user, fk) ==
  LET r == deleteOrder(orderId, user, fk)
  IN /\ fk = "violation" => r.response.code = 500
     /\ Apply(r)

\* Order.prototype.getProgressPercentage: the table of the method.
statusProgress ==
  [status \in OrderStatuses |->
     CASE status = "pending" -> 5
       [] status = "measuring_scheduled" -> 10
       [] status = "measuring_in_progress" -> 15
       [] status = "measuring_completed" -> 25
       [] status = "production_scheduled" -> 30
       [] status = "in_production" -> 50
       [] status = "production_completed" -> 70
       [] status = "delivery_scheduled" -> 75
       [] status = "in_delivery" -> 80
       [] status = "delivered" -> 85
       [] status = "installation_scheduled" -> 90
       [] status = "installation_in_progress" -> 95
       [] status = "installation_completed" -> 98
       [] status = "completed" -> 100
       [] status = "cancelled" -> 0]

\* What is left to do rather than what is done.
getProgressPercentageRemaining(order) == 100 - statusProgress[order.status]

\* statusProgress[this.status] || 0: a status that is not in the table, and
\* an entry of 0, give 0.
getProgressPercentage(order) ==
  IF order.status \in DOMAIN statusProgress /\ statusProgress[order.status] # 0
    THEN statusProgress[order.status]
  ELSE 0

\* ---------------------------------------------------------------- users
canManageUsers(user) == UserRole[user] \in {"director", "manager"}

\* DELETE /users/:userId. user.destroy() takes with it the user's client
\* profile, the orders of that client, their jobs and the status updates of
\* those jobs (onDelete CASCADE); a job the user was the worker of is left
\* without a worker when the statement succeeds (SET NULL).
deleteUser(userId, user, fk) ==
  IF ~canManageUsers(user) THEN Refuse(403, "User management permissions required")
  ELSE IF user = userId THEN Refuse(400, "Cannot delete your own account")
  ELSE IF userId \notin users THEN Refuse(404, "User not found")
  ELSE IF fk = "violation" THEN Refuse(500, "Failed to delete user")
  ELSE LET goneClients == {c \in clients : ClientUser[c] = userId}
           goneOrders == {o \in DOMAIN orders : orders[o].client_id \in goneClients}
           goneJobs == {j \in DOMAIN jobs : jobs[j].order_id \in goneOrders}
       IN [Kept EXCEPT
             !.users = users \ {userId},
             !.clients = clients \ goneClients,
             !.orders = Delete(orders, goneOrders),
             !.jobs = [j \in DOMAIN jobs \ goneJobs |->
                        [jobs[j] EXCEPT !.assigned_worker_id =
                                          IF @ = userId THEN NULL ELSE @]],
             !.statusUpdates = SelectSeq(statusUpdates, LAMBDA r : r.job_id \notin goneJobs),
             !.response = [code |-> 200]]

\* The foreign keys come into play only when the handler reaches user.destroy().
DeleteUser(userId, user, fk) ==
  LET r == deleteUser(userId, user, fk)
      gone == IF r.response.code = 200 THEN {userId} ELSE {}
  IN /\ fk = "violation" => r.response.code = 500
     /\ Write(r)
     /\ sessions' = {s \in sessions : s.user_id \notin gone}
     /\ resetTokens' = [t \in {x \in DOMAIN resetTokens : resetTokens[x].user_id \notin gone}
                          |-> resetTokens[t]]
     /\ UNCHANGED <<now, creating, updating, passwords, sent, resetting, loggedOut,
                    redeemed, limiter>>

\* ---------------------------------------------------------------- sessions
\* Time passes between the requests of the authentication routes.
Elapse ==
  /\ now < MaxClock
  /\ now' = now + 1
  /\ UNCHANGED <<db, notified, response, creating, updating, auth>>

\* The lifetime of a JWT (JWT_EXPIRES_IN, '7d') and of a session (7 days),
\* in instants of the clock.
JwtLifetime == 2

SessionLifetime == 2

\* A request with no Authorization header.
NoToken == [none |-> TRUE]

\* jwt.sign({ userId }, secret, { expiresIn }): the payload; a token that
\* jwt.sign did not make has signed FALSE.
generateToken(userId) ==
  [userId |-> userId, iat |-> now, exp |-> now + JwtLifetime, signed |-> TRUE]

\* UserSession.hashToken: the SHA-256 digest of the token.
hashToken(token) == <<"sha256", token>>

\* The attributes a user can log in with.
LoginAttributes == {"email", "phone_number", "username"}

Attribute(user, attribute) == <<attribute, user>>

\* User.findOne({ where: { [Op.or]: [{ email }, { phone_number }, { username }] } })
findUserByLogin(login) ==
  {u \in users : \E attribute \in LoginAttributes : Attribute(u, attribute) = login}

\* UserSession.createForUser
createForUser(userId, tokenHash) ==
  [user_id |-> userId, token_hash |-> tokenHash, expires_at |-> now + SessionLifetime]

\* UserSession.findByTokenHash
findByTokenHash(tokenHash) ==
  {s \in sessions : s.token_hash = tokenHash /\ s.expires_at > now}

\* UserSession.prototype.isValid
isValid(session) == ~(now > session.expires_at)

\* The names bound where the login handler evaluates its query: the
\* handler's parameters and locals and the module's constants. The handler
\* reads role, which register declares and login does not.
LoginScope ==
  {"req", "res", "errors", "login", "password", "User", "Client", "UserSession",
   "bcrypt", "generateToken", "getDeviceInfo"}

\* POST /auth/login: the sessions it leaves, its response and the token in it.
\* Reading a name that is not bound throws (ReferenceError), which the
\* handler's catch answers with 500.
login(loginName, password) ==
  LET refuse(code, error) ==
        [sessions |-> sessions, response |-> [code |-> code, error |-> error]]
      found == findUserByLogin(loginName)
  IN IF loginName = <<>> \/ password = "" THEN refuse(400, "validation")
     ELSE IF "role" \notin LoginScope THEN refuse(500, "Login failed")
     ELSE IF found = {} THEN refuse(401, "Invalid credentials")
     ELSE LET user == CHOOSE u \in found : TRUE
              token == generateToken(user)
              tokenHash == hashToken(token)
          IN IF ~compare(password, passwords[user]) THEN refuse(401, "Invalid credentials")
             ELSE IF \E s \in sessions : s.token_hash = tokenHash
               THEN refuse(500, "Login failed")
             ELSE [sessions |-> sessions \cup {createForUser(user, tokenHash)},
                   response |-> [code |-> 200, token |-> token]]

Login(loginName, password) ==
  LET r == login(loginName, password)
  IN /\ sessions' = r.sessions
     /\ response' = r.response
     /\ UNCHANGED <<db, notified, now, creating, updating, resetTokens, passwords, sent,
                    resetting, loggedOut, redeemed, limiter>>

\* authenticateToken: the response it sends, or code 0 with the user and the
\* session it attaches to the request when it calls next().
authenticateToken(token) ==
  LET refuse(error) == [code |-> 401, error |-> error]
      found == findByTokenHash(hashToken(token))
  IN IF token = NoToken THEN refuse("Access token required")
     ELSE IF ~token.signed THEN refuse("Invalid token")
     ELSE IF now >= token.exp THEN refuse("Token expired")
     ELSE IF found = {} THEN refuse("Invalid or expired session")
     ELSE LET session == CHOOSE s \in found : TRUE
          IN IF ~isValid(session) THEN refuse("Invalid or expired session")
             ELSE IF token.userId \notin users THEN refuse("User not found or inactive")
             ELSE [code |-> 0, user |-> token.userId, session |-> session]

\* A request to a route behind authenticateToken and nothing else: answered
\* 401, or passed on and answered 200.
Authenticated(token) ==
  /\ response' = IF authenticateToken(token).code = 0 THEN [code |-> 200]
                 ELSE authenticateToken(token)
  /\ UNCHANGED <<db, notified, now, creating, updating, auth>>

\* A table that still holds every session.
revokeNothing(session) == sessions

\* UserSession.prototype.revoke: this.destroy()
revoke(session) == sessions \ {session}

\* UserSession.revokeAllForUser: destroy({ where: { user_id } })
revokeAllForUser(userId) == {s \in sessions : s.user_id # userId}

\* POST /auth/logout
Logout(token) ==
  LET a == authenticateToken(token)
  IN /\ sessions' = IF a.code = 0 THEN revoke(a.session) ELSE sessions
     /\ response' = IF a.code = 0 THEN [code |-> 200, message |-> "Logout successful"] ELSE a
     /\ loggedOut' = IF a.code = 0 THEN loggedOut \cup {token} ELSE loggedOut
     /\ UNCHANGED <<db, notified, now, creating, updating, resetTokens, passwords, sent,
                    resetting, redeemed, limiter>>

\* POST /auth/logout-all; the tokens it logs out are those of the user's
\* sessions.
LogoutAll(token) ==
  LET a == authenticateToken(token)
  IN /\ sessions' = IF a.code = 0 THEN revokeAllForUser(a.user) ELSE sessions
     /\ response' = IF a.code = 0
                      THEN [code |-> 200, message |-> "Logged out from all devices"]
                    ELSE a
     /\ loggedOut' =
          IF a.code = 0
            THEN loggedOut \cup {s.token_hash[2] : s \in {x \in sessions : x.user_id = a.user}}
          ELSE loggedOut
     /\ UNCHANGED <<db, notified, now, creating, updating, resetTokens, passwords, sent,
                    resetting, redeemed, limiter>>

\* ---------------------------------------------------------------- password reset
\* crypto.randomBytes(32).toString('hex') has 64 characters; the code sent is
\* made of the first 8.
TokenLen == 64

CodeLen == 8

\* The lifetime of a reset token (1 hour), in instants of the clock.
ResetLifetime == 1

\* Two of the values crypto.randomBytes(32).toString('hex') can give.
RandomTokens == {[i \in 1..TokenLen |-> c] : c \in {"a", "7"}}

\* String.prototype.toUpperCase, on the characters of a hex string
toUpperCase(c) ==
  CASE c = "a" -> "A" [] c = "b" -> "B" [] c = "c" -> "C"
    [] c = "d" -> "D" [] c = "e" -> "E" [] c = "f" -> "F"
    [] OTHER -> c



\* resetToken.token.substring(0, 8).toUpperCase()
resetCode(token) == [i \in 1..CodeLen |-> toUpperCase(token[i])]

\* The passwords of the requests; the first two pass the validation of
\* reset-password (8 characters or more, a lower-case letter, an upper-case
\* letter and a digit).
Passwords == {InitialPassword, "N3wPassw", "short"}

passwordValid(password) == password \in {InitialPassword, "N3wPassw"}

\* PasswordResetToken.findValidToken
findValidToken(token) ==
  {t \in DOMAIN resetTokens :
     t = token /\ ~resetTokens[t].used /\ resetTokens[t].expires_at > now}

\* PasswordResetToken.revokeAllForUser: update({ used: true }, { where: { user_id, used: false } })
revokeTokensForUser(userId) ==
  [t \in DOMAIN resetTokens |->
     IF resetTokens[t].user_id = userId /\ ~resetTokens[t].used
       THEN [resetTokens[t] EXCEPT !.used = TRUE]
     ELSE resetTokens[t]]

\* POST /auth/forgot-password; token is the value the beforeCreate hook draws.
ForgotPassword(loginName, token) ==
  LET found == findUserByLogin(loginName)
      user == CHOOSE u \in found : TRUE
      message == [message |-> "If the account exists, a reset code will be sent"]
  IN /\ token \in RandomTokens \ DOMAIN resetTokens
     /\ IF loginName = <<>>
          THEN /\ response' = [code |-> 400, error |-> "validation"]
               /\ UNCHANGED <<resetTokens, sent>>
        ELSE IF found = {}
          THEN /\ response' = [code |-> 200] @@ message
               /\ UNCHANGED <<resetTokens, sent>>
        ELSE /\ resetTokens' =
                  Insert(revokeTokensForUser(user), token,
                         [user_id |-> user, expires_at |-> now + ResetLifetime,
                          used |-> FALSE])
             /\ sent' = sent \cup {[user_id |-> user, code |-> resetCode(token),
                                    token |-> token]}
             /\ response' = [code |-> 200] @@ message
     /\ UNCHANGED <<db, notified, now, creating, updating, sessions, passwords, resetting,
                    loggedOut, redeemed, limiter>>

\* The awaited writes of POST /auth/reset-password, in the order the handler
\* makes them.
ResetWrites == <<"user_update", "token_save", "sessions_destroy">>

\* POST /auth/reset-password handled in one piece: what it leaves and its
\* response.
resetPassword(token, password) ==
  LET refuse(error) ==
        [passwords |-> passwords, resetTokens |-> resetTokens, sessions |-> sessions,
         response |-> [code |-> 400, error |-> error]]
      found == findValidToken(token)
  IN IF token = <<>> \/ ~passwordValid(password) THEN refuse("validation")
     ELSE IF found = {} THEN refuse("Invalid or expired reset token")
     ELSE LET resetToken == CHOOSE t \in found : TRUE
              user == resetTokens[resetToken].user_id
          IN [passwords |-> [passwords EXCEPT ![user] = hash(password)],
              resetTokens |-> [resetTokens EXCEPT ![resetToken].used = TRUE],
              sessions |-> revokeAllForUser(user),
              response |-> [code |-> 200, message |-> "Password reset successful"]]

\* How often a reset-password request has answered 200 for the token.
Redeemed(token) == IF token \in DOMAIN redeemed THEN redeemed[token] ELSE 0

ResetPassword(token, password) ==
  LET r == resetPassword(token, password)
  IN /\ passwords' = r.passwords
     /\ resetTokens' = r.resetTokens
     /\ sessions' = r.sessions
     /\ response' = r.response
     /\ redeemed' = IF r.response.code = 200
                      THEN Insert(redeemed, token, Redeemed(token) + 1)
                    ELSE redeemed
     /\ UNCHANGED <<db, notified, now, creating, updating, sent, resetting, loggedOut,
                    limiter>>

\* POST /auth/reset-password of a request p handled while others are, up to
\* the end of findValidToken: a request that is refused answers at once; one
\* that passes holds the token row it found and has its writes ahead of it.
BeginResetPassword(p, token, password) ==
  /\ p \notin DOMAIN resetting
  /\ IF resetPassword(token, password).response.code # 200
       THEN /\ response' = resetPassword(token, password).response
            /\ UNCHANGED resetting
     ELSE /\ resetting' = [q \in DOMAIN resetting \cup {p} |->
                             IF q = p
                               THEN [token |-> token, password |-> password,
                                     user |-> resetTokens[token].user_id, at |-> 1]
                             ELSE resetting[q]]
          /\ UNCHANGED response
  /\ UNCHANGED <<db, notified, now, creating, updating, sessions, resetTokens, passwords,
                 sent, loggedOut, redeemed, limiter>>

\* The next awaited write of request p; after its last write the request
\* answers 200.
StepResetPassword(p) ==
  /\ p \in DOMAIN resetting
  /\ LET u == resetting[p]
         w == ResetWrites[u.at]
         last == u.at = Len(ResetWrites)
     IN /\ passwords' = IF w = "user_update"
                          THEN [passwords EXCEPT ![u.user] = hash(u.password)]
                        ELSE passwords
        /\ resetTokens' = IF w = "token_save" /\ u.token \in DOMAIN resetTokens
                            THEN [resetTokens EXCEPT ![u.token].used = TRUE]
                          ELSE resetTokens
        /\ sessions' = IF w = "sessions_destroy" THEN revokeAllForUser(u.user) ELSE sessions
        /\ response' = IF last THEN [code |-> 200, message |-> "Password reset successful"]
                       ELSE response
        /\ redeemed' = IF last THEN Insert(redeemed, u.token, Redeemed(u.token) + 1)
                       ELSE redeemed
        /\ resetting' = IF last THEN [q \in DOMAIN resetting \ {p} |-> resetting[q]]
                        ELSE [resetting EXCEPT ![p].at = u.at + 1]
  /\ UNCHANGED <<db, notified, now, creating, updating, sent, loggedOut, limiter>>

\* ---------------------------------------------------------------- rate limiter
\* The keys of the requests: req.ip + (req.user ? req.user.id : '')
Keys == {"10.0.0.1", "10.0.0.2"}

\* createRateLimiter(windowMs, max): a limiter with an empty Map.
CreateRateLimiter(windowMs, max) ==
  /\ limiter = NoLimiter
  /\ limiter' = [windowMs |-> windowMs, max |-> max, attempts |-> <<>>, passed |-> <<>>]
  /\ UNCHANGED <<db, notified, now, response, creating, updating, sessions, resetTokens,
                 passwords, sent, resetting, loggedOut, redeemed>>

\* A filter that keeps the attempt made at the start of the window.
recentAttemptsInclusive(userAttempts, windowStart) ==
  SelectSeq(userAttempts, LAMBDA time : time >= windowStart)

\* userAttempts.filter(time => time > windowStart)
recentAttempts(userAttempts, windowStart) ==
  SelectSeq(userAttempts, LAMBDA time : time > windowStart)

\* Math.ceil(ms / 1000) of a positive number of milliseconds
CeilSeconds(ms) == (ms + 999) \div 1000

\* The times recorded under the key in a Map of the limiter.
Get(map, key) == IF key \in DOMAIN map THEN map[key] ELSE <<>>

\* The middleware on a request of the key: the limiter it leaves and the
\* response it sends, code 0 when it calls next(). passed keeps, for each
\* key, the times of all the requests passed on.
rateLimit(key) ==
  LET windowStart == now - limiter.windowMs
      userAttempts == Get(limiter.attempts, key)
      recent == recentAttempts(userAttempts, windowStart)
  IN IF Len(recent) >= limiter.max
       THEN [limiter |-> [limiter EXCEPT !.attempts = Insert(@, key, userAttempts)],
             response |-> [code |-> 429,
                           error |-> "Too many attempts, please try again later",
                           retry_after |->
                             CeilSeconds(recent[1] + limiter.windowMs - now)]]
     ELSE [limiter |-> [limiter EXCEPT
                          !.attempts = Insert(@, key, Append(recent, now)),
                          !.passed = Insert(@, key, Append(Get(limiter.passed, key), now))],
           response |-> [code |-> 0]]

RateLimit(key) ==
  /\ limiter # NoLimiter
  /\ limiter' = rateLimit(key).limiter
  /\ response' = rateLimit(key).response
  /\ UNCHANGED <<db, notified, now, creating, updating, sessions, resetTokens,
                 passwords, sent, resetting, loggedOut, redeemed>>

\* ---------------------------------------------------------------- Job model
\* A flow in which a completed job can be reopened.
statusFlowReopening(status) ==
  CASE status = "assigned" -> {"en_route", "cancelled"}
    [] status = "en_route" -> {"arrived", "cancelled"}
    [] status = "arrived" -> {"in_progress", "cancelled"}
    [] status = "in_progress" -> {"completed", "cancelled"}
    [] status = "completed" -> {"in_progress"}
    [] status = "cancelled" -> {}
    [] OTHER -> {}

\* statusFlow of Job.prototype.getNextValidStatuses, each array as a set
statusFlow(status) ==
  CASE status = "assigned" -> {"en_route", "cancelled"}
    [] status = "en_route" -> {"arrived", "cancelled"}
    [] status = "arrived" -> {"in_progress", "cancelled"}
    [] status = "in_progress" -> {"completed", "cancelled"}
    [] status = "completed" -> {}
    [] status = "cancelled" -> {}
    [] OTHER -> {}

getNextValidStatuses(job) == statusFlow(job.status)

\* A check that also lets a job "move" to the status it has.
canUpdateStatusOrSame(job, newStatus) ==
  newStatus \in getNextValidStatuses(job) \/ newStatus = job.status

canUpdateStatus(job, newStatus) == newStatus \in getNextValidStatuses(job)

\* workerRoleMap of POST /jobs and PUT /jobs/:jobId
workerRoleMap(job_type) ==
  CASE job_type = "measuring" -> "measurer"
    [] job_type = "delivery" -> "delivery_person"
    [] job_type = "installation" -> "installer"

\* A map that takes a completed delivery for a delivery under way.
orderStatusMapInDelivery(job_type) ==
  CASE job_type = "measuring" -> "measuring_completed"
    [] job_type = "delivery" -> "in_delivery"
    [] job_type = "installation" -> "installation_completed"
    [] OTHER -> NoStatus

\* orderStatusMap of PUT /jobs/:jobId/status; NoStatus when the type has no entry
orderStatusMap(job_type) ==
  CASE job_type = "measuring" -> "measuring_completed"
    [] job_type = "delivery" -> "delivered"
    [] job_type = "installation" -> "installation_completed"
    [] OTHER -> NoStatus

\* A derivation that fires on every terminal job status.
derivesOrderStatusOnTerminal(status, job_type) ==
  status \in {"completed", "cancelled"} /\ orderStatusMap(job_type) # NoStatus

\* The handler derives the order's status: status === 'completed' and the map
\* has an entry for the job's type.
derivesOrderStatus(status, job_type) ==
  status = "completed" /\ orderStatusMap(job_type) # NoStatus

\* A derivation that leaves a completed or cancelled order alone.
orderDerivedUpdateGuarded(order, newOrderStatus) ==
  IF order.status \in {"completed", "cancelled"} THEN order
  ELSE [order EXCEPT !.status = newOrderStatus]

\* job.order.update({ status: newOrderStatus })
orderDerivedUpdate(order, newOrderStatus) == [order EXCEPT !.status = newOrderStatus]

\* A row that records the new status as the previous one.
StatusUpdateStale(job_id, previous_status, new_status) ==
  [job_id |-> job_id, previous_status |-> new_status, new_status |-> new_status]

\* A job_status_updates row; the actor, notes and coordinates columns play no
\* part in the workflow and are left out.
StatusUpdate(job_id, previous_status, new_status) ==
  [job_id |-> job_id, previous_status |-> previous_status, new_status |-> new_status]

\* An update that never stamps the end time.
jobStatusUpdateNoEnd(job, status, today) ==
  [job EXCEPT
     !.status = status,
     !.actual_start_time =
        IF status = "in_progress" /\ job.actual_start_time = NULL
          THEN today ELSE job.actual_start_time]

\* An update that stamps the start time again on completion.
jobStatusUpdateRestamp(job, status, today) ==
  [job EXCEPT
     !.status = status,
     !.actual_start_time =
        IF status = "in_progress" /\ job.actual_start_time = NULL
          THEN today
        ELSE IF status = "completed" THEN today ELSE job.actual_start_time,
     !.actual_end_time =
        IF status = "completed" THEN today ELSE job.actual_end_time]

\* job.update({status, actual_start_time, actual_end_time}) of PUT /jobs/:jobId/status
jobStatusUpdate(job, status, today) ==
  [job EXCEPT
     !.status = status,
     !.actual_start_time =
        IF status = "in_progress" /\ job.actual_start_time = NULL
          THEN today ELSE job.actual_start_time,
     !.actual_end_time =
        IF status = "completed" THEN today ELSE job.actual_end_time]

\* ---------------------------------------------------------------- jobs
\* The awaited writes of POST /jobs, in the order the handler makes them; a
\* fault names the write that throws ("none": no write throws).
CreateWrites == <<"job_create", "status_update_create", "notification_create">>

CreateFaults == {CreateWrites[i] : i \in DOMAIN CreateWrites} \cup {"none"}

\* The write w of POST /jobs completes: it comes before the one that throws.
Created(w, fault) ==
  \/ fault = "none"
  \/ (CHOOSE i \in DOMAIN CreateWrites : CreateWrites[i] = w)
       < (CHOOSE i \in DOMAIN CreateWrites : CreateWrites[i] = fault)

\* POST /jobs
createJob(user, order_id, job_type, assigned_worker_id, fault) ==
  IF ~requireManagement(user) THEN Refuse(403, Insufficient)
  ELSE IF ~OrderExists(order_id) THEN Refuse(404, "Order not found")
  ELSE IF /\ assigned_worker_id # NULL
          /\ \/ assigned_worker_id \notin users
             \/ UserRole[assigned_worker_id] # workerRoleMap(job_type)
    THEN Refuse(404, "Worker not found or incorrect role")
  ELSE [Kept EXCEPT
          !.jobs =
             IF Created("job_create", fault)
               THEN Insert(jobs, nextJobId,
                      [order_id |-> order_id, job_type |-> job_type,
                       status |-> "assigned",
                       assigned_worker_id |-> assigned_worker_id,
                       actual_start_time |-> NULL, actual_end_time |-> NULL])
             ELSE jobs,
          !.nextJobId = IF Created("job_create", fault) THEN nextJobId + 1 ELSE nextJobId,
          !.statusUpdates =
             IF Created("status_update_create", fault)
               THEN Append(statusUpdates, StatusUpdate(nextJobId, NoStatus, "assigned"))
             ELSE statusUpdates,
          !.notified =
             IF assigned_worker_id # NULL /\ Created("notification_create", fault)
               THEN <<Notify(assigned_worker_id, "job_assignment", nextJobId, NULL)>>
             ELSE <<>>,
          !.response =
             IF fault = "none" THEN [code |-> 201]
             ELSE [code |-> 500, error |-> "Failed to create job"]]

\* The handler reaches the write that throws: it is past its checks and, for
\* the notification, the job has a worker.
CreateReaches(user, order_id, job_type, assigned_worker_id, fault) ==
  \/ fault = "none"
  \/ /\ createJob(user, order_id, job_type, assigned_worker_id, "none").response.code = 201
     /\ fault = "notification_create" => assigned_worker_id # NULL

CreateJob(user, order_id, job_type, assigned_worker_id, fault) ==
  LET r == createJob(user, order_id, job_type, assigned_worker_id, fault)
  IN /\ CreateReaches(user, order_id, job_type, assigned_worker_id, fault)
     /\ DOMAIN r.jobs \subseteq JobIds
     /\ Len(r.statusUpdates) <= MaxStatusUpdates
     /\ Apply(r)

\* PUT /jobs/:jobId: job.update(req.body). The body fields modelled are status
\* (NoStatus when the body has none) and assigned_worker_id (NULL when none).
putJob(jobId, user, status, assigned_worker_id) ==
  IF ~requireManagement(user) THEN Refuse(403, Insufficient)
  ELSE IF ~JobExists(jobId) THEN Refuse(404, "Job not found")
  ELSE IF /\ assigned_worker_id # NULL
          /\ \/ assigned_worker_id \notin users
             \/ UserRole[assigned_worker_id] # workerRoleMap(jobs[jobId].job_type)
    THEN Refuse(404, "Worker not found or incorrect role")
  ELSE LET job == jobs[jobId]
           changed == assigned_worker_id # NULL
                      /\ job.assigned_worker_id # assigned_worker_id
       IN [Kept EXCEPT
             !.notified =
                IF changed
                  THEN <<Notify(assigned_worker_id, "job_assignment", jobId, NULL)>>
                ELSE <<>>,
             !.jobs = [jobs EXCEPT ![jobId] =
                        [job EXCEPT
                           !.status = IF status # NoStatus THEN status ELSE @,
                           !.assigned_worker_id =
                              IF assigned_worker_id # NULL THEN assigned_worker_id ELSE @]],
             !.response = [code |-> 200]]

\* The body's status, when it has one, is one of the column's ENUM values.
PutJob(jobId, user, status, assigned_worker_id) ==
  /\ status \in JobStatuses \cup {NoStatus}
  /\ Apply(putJob(jobId, user, status, assigned_worker_id))

\* The awaited writes of PUT /jobs/:jobId/status, in the order the handler
\* makes them; a fault names the write that throws ("none": no write throws).
Writes == <<"job_update", "status_update_create", "notification_create", "order_update">>

Faults == {Writes[i] : i \in DOMAIN Writes} \cup {"none"}

WriteIndex(w) == CHOOSE i \in DOMAIN Writes : Writes[i] = w

\* The write w completes: it comes before the one that throws.
Done(w, fault) == fault = "none" \/ WriteIndex(w) < WriteIndex(fault)

\* PUT /jobs/:jobId/status. On success the response carries old_status and
\* new_status; order_was is job.order.status as the handler had loaded it.
putJobStatus(jobId, user, status, fault) ==
  IF ~JobExists(jobId) THEN Refuse(404, "Job not found")
  ELSE LET job == jobs[jobId]
           isAssignedWorker == job.assigned_worker_id = user
           canManageJobs == canViewAllProjects(user)
       IN IF ~canManageJobs /\ ~isAssignedWorker THEN Refuse(403, "Access denied")
          ELSE IF ~canUpdateStatus(job, status)
            THEN [Kept EXCEPT
                    !.response = [code |-> 400,
                                  current_status |-> job.status,
                                  valid_next_statuses |-> getNextValidStatuses(job)]]
          ELSE LET oldStatus == job.status
                   order == orders[job.order_id]
                   clientUser == ClientUser[order.client_id]
                   newOrderStatus == orderStatusMap(job.job_type)
               IN [Kept EXCEPT
                     !.jobs =
                        IF Done("job_update", fault)
                          THEN [jobs EXCEPT ![jobId] = jobStatusUpdate(job, status, now)]
                        ELSE jobs,
                     !.statusUpdates =
                        IF Done("status_update_create", fault)
                          THEN Append(statusUpdates, StatusUpdate(jobId, oldStatus, status))
                        ELSE statusUpdates,
                     !.notified =
                        IF Done("notification_create", fault)
                          THEN <<Notify(clientUser, "status_update", jobId, job.order_id)>>
                        ELSE <<>>,
                     !.orders =
                        IF derivesOrderStatus(status, job.job_type)
                           /\ Done("order_update", fault)
                          THEN [orders EXCEPT ![job.order_id] =
                                  orderDerivedUpdate(order, newOrderStatus)]
                        ELSE orders,
                     !.response =
                        IF fault = "none"
                          THEN [code |-> 200, old_status |-> oldStatus,
                                new_status |-> status, order_was |-> order.status]
                        ELSE [code |-> 500, error |-> "Failed to update job status"]]

\* The handler reaches the write that throws: it is past its checks and, for
\* the order's update, derives the order's status.
Reaches(jobId, user, status, fault) ==
  \/ fault = "none"
  \/ /\ JobExists(jobId)
     /\ canViewAllProjects(user) \/ jobs[jobId].assigned_worker_id = user
     /\ canUpdateStatus(jobs[jobId], status)
     /\ fault = "order_update" => derivesOrderStatus(status, jobs[jobId].job_type)

PutJobStatus(jobId, user, status, fault) ==
  LET r == putJobStatus(jobId, user, status, fault)
  IN /\ Reaches(jobId, user, status, fault)
     /\ Len(r.statusUpdates) <= MaxStatusUpdates
     /\ Apply(r)

\* The requests that may be updating a job's status at the same time.
Updaters == 1..MaxUpdaters

\* PUT /jobs/:jobId/status of a request p handled while others are, up to the
\* end of its checks: a request that is refused answers at once; one that
\* passes holds the job and the order as Job.findByPk loaded them and has its
\* writes ahead of it.
BeginPutJobStatus(p, jobId, user, status) ==
  /\ p \notin DOMAIN updating
  /\ Len(statusUpdates) + Cardinality(DOMAIN updating) <= MaxStatusUpdates
  /\ IF ~Reaches(jobId, user, status, "job_update")
       THEN Apply(putJobStatus(jobId, user, status, "none"))
     ELSE /\ updating' = [q \in DOMAIN updating \cup {p} |->
                            IF q = p
                              THEN [jobId |-> jobId, user |-> user, status |-> status,
                                    job |-> jobs[jobId],
                                    order |-> orders[jobs[jobId].order_id], at |-> 1]
                            ELSE updating[q]]
          /\ UNCHANGED <<db, notified, now, response, creating, auth>>

\* The next awaited write of request p, made from the instances the request
\* loaded; after its last write the request answers 200. job.update writes
\* the three attributes it names, job.order.update writes nothing when the
\* loaded order already has the derived status.
StepPutJobStatus(p) ==
  /\ p \in DOMAIN updating
  /\ LET u == updating[p]
         w == Writes[u.at]
         written == jobStatusUpdate(u.job, u.status, now)
         newOrderStatus == orderStatusMap(u.job.job_type)
         last == \/ w = "order_update"
                 \/ w = "notification_create" /\ ~derivesOrderStatus(u.status, u.job.job_type)
     IN /\ jobs' =
             IF w = "job_update" /\ JobExists(u.jobId)
               THEN [jobs EXCEPT ![u.jobId] =
                       [@ EXCEPT !.status = written.status,
                                 !.actual_start_time = written.actual_start_time,
                                 !.actual_end_time = written.actual_end_time]]
             ELSE jobs
        /\ statusUpdates' =
             IF w = "status_update_create"
               THEN Append(statusUpdates, StatusUpdate(u.jobId, u.job.status, u.status))
             ELSE statusUpdates
        /\ notified' =
             IF w = "notification_create"
               THEN <<Notify(ClientUser[u.order.client_id], "status_update",
                             u.jobId, u.job.order_id)>>
             ELSE notified
        /\ orders' =
             IF w = "order_update" /\ OrderExists(u.job.order_id)
                /\ u.order.status # newOrderStatus
               THEN [orders EXCEPT ![u.job.order_id] = orderDerivedUpdate(@, newOrderStatus)]
             ELSE orders
        /\ response' =
             IF last
               THEN [code |-> 200, old_status |-> u.job.status, new_status |-> u.status,
                     order_was |-> u.order.status]
             ELSE response
        /\ updating' =
             IF last THEN [q \in DOMAIN updating \ {p} |-> updating[q]]
             ELSE [updating EXCEPT ![p].at = u.at + 1]
  /\ UNCHANGED <<nextOrderId, nextJobId, users, clients, now, creating, auth>>

\* DELETE /jobs/:jobId; the status updates of the job go with it (onDelete CASCADE).
deleteJob(jobId, user, fk) ==
  IF ~requireManagement(user) THEN Refuse(403, Insufficient)
  ELSE IF ~JobExists(jobId) THEN Refuse(404, "Job not found")
  ELSE IF jobs[jobId].status # "assigned" THEN Refuse(400, "Only assigned jobs can be deleted")
  ELSE IF fk = "violation" THEN Refuse(500, "Failed to delete job")
  ELSE [Kept EXCEPT
          !.jobs = Delete(jobs, {jobId}),
          !.statusUpdates = SelectSeq(statusUpdates, LAMBDA r : r.job_id # jobId),
          !.response = [code |-> 200]]

\* The foreign keys come into play only when the handler reaches job.destroy().
DeleteJob(jobId, user, fk) ==
  LET r == deleteJob(jobId, user, fk)
  IN /\ fk = "violation" => r.response.code = 500
     /\ Apply(r)

\* ---------------------------------------------------------------- specification
Next ==
  \/ \E user \in Users, client_id \in ReqClientIds : CreateOrder(user, client_id)
  \/ \E orderId \in OrderIds, user \in Users, status \in ManagedStatuses :
       PutOrderStatus(orderId, user, status)
  \/ \E orderId \in OrderIds, user \in Users, fk \in FkOutcomes :
       DeleteOrder(orderId, user, fk)
  \/ \E user \in Users, order_id \in OrderIds, job_type \in JobTypes,
        assigned_worker_id \in Users \cup {NULL} :
       CreateJob(user, order_id, job_type, assigned_worker_id, "none")
  \/ \E jobId \in JobIds, user \in Users, status \in EditStatuses \cup {NoStatus},
        assigned_worker_id \in Users \cup {NULL} :
       PutJob(jobId, user, status, assigned_worker_id)
  \/ \E jobId \in JobIds, user \in Users, status \in JobStatuses, fault \in Faults :
       PutJobStatus(jobId, user, status, fault)
  \/ \E jobId \in JobIds, user \in Users, fk \in FkOutcomes : DeleteJob(jobId, user, fk)

\* The requests of the workflow, handled one at a time, at one instant.
Spec == Init /\ [][Next]_vars

\* The order requests alone, with every order status, and time passing.
NextOrders ==
  \/ Tick
  \/ \E user \in Users, client_id \in ReqClientIds : CreateOrder(user, client_id)
  \/ \E orderId \in OrderIds, user \in Users, status \in OrderStatuses :
       PutOrderStatus(orderId, user, status)
  \/ \E orderId \in OrderIds, user \in Users, fk \in FkOutcomes :
       DeleteOrder(orderId, user, fk)

SpecOrders == Init /\ [][NextOrders]_vars

\* The statuses the body of a PUT /jobs/:jobId carries in SpecJobs: an edit
\* that takes a job back to arrived, from where it can enter in_progress again.
ReopenStatuses == {"arrived"}

\* The users who create and edit in SpecJobs: the manager.
Editors == {u \in Users : UserRole[u] = "manager"}

\* The life of a job on the order as created, with time passing and with the
\* writes of POST /jobs failing.
NextJobs ==
  \/ Tick
  \/ \E user \in Editors, client_id \in ClientIds : CreateOrder(user, client_id)
  \/ \E user \in Editors, order_id \in OrderIds, job_type \in JobTypes,
        assigned_worker_id \in Users \cup {NULL}, fault \in CreateFaults :
       CreateJob(user, order_id, job_type, assigned_worker_id, fault)
  \/ \E jobId \in JobIds, user \in Editors, status \in ReopenStatuses :
       PutJob(jobId, user, status, NULL)
  \/ \E jobId \in JobIds, user \in Users, status \in JobStatuses :
       PutJobStatus(jobId, user, status, "none")

SpecJobs == Init /\ [][NextJobs]_vars

\* The status the end-to-end scenario asks of a job next: en_route, then
\* in_progress (which the handler refuses), then arrived, in_progress and
\* completed; NoStatus when the scenario is over.
ScenarioRequest(job) ==
  CASE job.status = "assigned" -> "en_route"
    [] job.status = "en_route" /\ response.code # 400 -> "in_progress"
    [] job.status = "en_route" /\ response.code = 400 -> "arrived"
    [] job.status = "arrived" -> "in_progress"
    [] job.status = "in_progress" -> "completed"
    [] OTHER -> NoStatus

\* The end-to-end scenario: one order is created and given any status, one
\* job is created on it, and the job's assigned worker or a management user
\* asks for the scenario's statuses one after the other, no write failing.
NextScenario ==
  \/ \E user \in Editors, client_id \in ClientIds :
       orders = <<>> /\ CreateOrder(user, client_id)
  \/ \E orderId \in OrderIds, user \in Editors, status \in OrderStatuses :
       jobs = <<>> /\ PutOrderStatus(orderId, user, status)
  \/ \E user \in Editors, order_id \in DOMAIN orders, job_type \in JobTypes,
        assigned_worker_id \in Users \cup {NULL} :
       /\ jobs = <<>>
       /\ assigned_worker_id # NULL => UserRole[assigned_worker_id] = workerRoleMap(job_type)
       /\ CreateJob(user, order_id, job_type, assigned_worker_id, "none")
  \/ \E jobId \in DOMAIN jobs, user \in Users :
       /\ canViewAllProjects(user) \/ jobs[jobId].assigned_worker_id = user
       /\ ScenarioRequest(jobs[jobId]) # NoStatus
       /\ PutJobStatus(jobId, user, ScenarioRequest(jobs[jobId]), "none")

SpecScenario == Init /\ [][NextScenario]_vars

\* Jobs created and taken through their statuses by status-update requests
\* only, any of the handler's writes failing.
NextTransitions ==
  \/ \E user \in Editors, client_id \in ClientIds : CreateOrder(user, client_id)
  \/ \E user \in Editors, order_id \in OrderIds, job_type \in JobTypes,
        assigned_worker_id \in Users \cup {NULL} :
       CreateJob(user, order_id, job_type, assigned_worker_id, "none")
  \/ \E jobId \in JobIds, user \in Users, status \in JobStatuses, fault \in Faults :
       PutJobStatus(jobId, user, status, fault)

SpecTransitions == Init /\ [][NextTransitions]_vars

\* Orders created one after the other, up to MaxSequence of them, given a
\* status and deleted.
NextSequence ==
  \/ \E user \in Users, client_id \in ReqClientIds :
       /\ nextOrderId <= MaxSequence
       /\ Apply(createOrder(user, client_id))
  \/ \E orderId \in 1..MaxSequence, user \in Users, status \in ManagedStatuses :
       PutOrderStatus(orderId, user, status)
  \/ \E orderId \in 1..MaxSequence, user \in Users, fk \in FkOutcomes :
       DeleteOrder(orderId, user, fk)

SpecSequence == Init /\ [][NextSequence]_vars

\* Status-update requests handled at the same time, each one await at a time.
NextUpdates ==
  \/ \E user \in Editors, client_id \in ClientIds : CreateOrder(user, client_id)
  \/ \E user \in Editors, order_id \in OrderIds, job_type \in JobTypes :
       CreateJob(user, order_id, job_type, NULL, "none")
  \/ \E p \in Updaters, jobId \in JobIds, user \in Editors, status \in JobStatuses :
       BeginPutJobStatus(p, jobId, user, status)
  \/ \E p \in Updaters : StepPutJobStatus(p)

SpecUpdates == Init /\ [][NextUpdates]_vars

\* The names the requests log in with: attributes of a manager and of a
\* client, an email no user has, and none.
LoginNames ==
  {Attribute(u, a) : u \in {1, 4}, a \in LoginAttributes} \cup {Attribute(0, "email"), <<>>}

\* The tokens the reset-password requests carry: whole tokens, the codes
\* made from them, and none.
ResetInputs == RandomTokens \cup {resetCode(t) : t \in RandomTokens} \cup {<<>>}

\* Logging in and resetting passwords, one request at a time.
NextAuth ==
  \/ Elapse
  \/ \E loginName \in LoginNames, password \in Passwords \cup {""} :
       Login(loginName, password)
  \/ \E loginName \in LoginNames, token \in RandomTokens : ForgotPassword(loginName, token)
  \/ \E token \in ResetInputs, password \in Passwords : ResetPassword(token, password)

SpecAuth == Init /\ [][NextAuth]_vars

\* Tokens issued before the service was started: two to the manager, at
\* instants 0 and 1, and one to the installer.
StoredTokens ==
  {[userId |-> 1, iat |-> 0, exp |-> JwtLifetime, signed |-> TRUE],
   [userId |-> 1, iat |-> 1, exp |-> 1 + JwtLifetime, signed |-> TRUE],
   [userId |-> 3, iat |-> 0, exp |-> JwtLifetime, signed |-> TRUE]}

\* The session createForUser stored when the token was issued.
StoredSession(token) ==
  [user_id |-> token.userId, token_hash |-> hashToken(token),
   expires_at |-> token.iat + SessionLifetime]

\* The tokens the requests carry: the stored ones, one with no session, one
\* that is not signed with the secret, and none.
RequestTokens ==
  StoredTokens
    \cup {[userId |-> 2, iat |-> 1, exp |-> 1 + JwtLifetime, signed |-> TRUE],
          [userId |-> 1, iat |-> 0, exp |-> JwtLifetime, signed |-> FALSE],
          NoToken}

\* The database holds sessions of earlier logins when the service starts.
InitSessions ==
  /\ InitTables
  /\ sessions \in SUBSET {StoredSession(token) : token \in StoredTokens}

\* Sessions being used and revoked.
NextSessions ==
  \/ Elapse
  \/ \E loginName \in LoginNames, password \in Passwords : Login(loginName, password)
  \/ \E token \in RequestTokens : Authenticated(token)
  \/ \E token \in RequestTokens : Logout(token)
  \/ \E token \in RequestTokens : LogoutAll(token)

SpecSessions == InitSessions /\ [][NextSessions]_vars

\* Reset-password requests handled at the same time, each one await at a time.
NextReset ==
  \/ Elapse
  \/ \E loginName \in LoginNames, token \in RandomTokens : ForgotPassword(loginName, token)
  \/ \E p \in Updaters, token \in ResetInputs, password \in Passwords :
       BeginResetPassword(p, token, password)
  \/ \E p \in Updaters : StepResetPassword(p)

SpecReset == Init /\ [][NextReset]_vars

\* A limiter is built and requests of two keys go through it as time passes.
NextLimiter ==
  \/ Elapse
  \/ \E windowMs \in 1..MaxWindow, max \in 1..MaxAttempts : CreateRateLimiter(windowMs, max)
  \/ \E key \in Keys : RateLimit(key)

SpecLimiter == Init /\ [][NextLimiter]_vars

\* The order and job requests of the stored users, with users being deleted.
NextUsers ==
  \/ \E user \in users, client_id \in ReqClientIds : CreateOrder(user, client_id)
  \/ \E orderId \in OrderIds, user \in users, status \in ManagedStatuses :
       PutOrderStatus(orderId, user, status)
  \/ \E orderId \in OrderIds, user \in users, fk \in FkOutcomes :
       DeleteOrder(orderId, user, fk)
  \/ \E user \in users, order_id \in OrderIds, job_type \in JobTypes,
        assigned_worker_id \in Users \cup {NULL} :
       CreateJob(user, order_id, job_type, assigned_worker_id, "none")
  \/ \E userId \in Users, user \in users, fk \in FkOutcomes : DeleteUser(userId, user, fk)

SpecUsers == Init /\ [][NextUsers]_vars

\* Order creations handled at the same time, each in two steps, among order
\* status updates.
NextRace ==
  \/ \E p \in Creators, user \in Users, client_id \in ReqClientIds :
       BeginCreateOrder(p, user, client_id)
  \/ \E p \in Creators : FinishCreateOrder(p)
  \/ \E orderId \in Creators, user \in Users, status \in ManagedStatuses :
       PutOrderStatus(orderId, user, status)

SpecRace == Init /\ [][NextRace]_vars

\* ================================================================ claims
\* What the specification states, kept apart from the code's own tables.

\* The job transition table of the specification (4.1).
TransitionTable ==
  {<<"assigned", "en_route">>, <<"assigned", "cancelled">>,
   <<"en_route", "arrived">>, <<"en_route", "cancelled">>,
   <<"arrived", "in_progress">>, <<"arrived", "cancelled">>,
   <<"in_progress", "completed">>, <<"in_progress", "cancelled">>}

AllowedNext(current) == {s \in JobStatuses : <<current, s>> \in TransitionTable}

\* Who may request a job transition: the assigned worker or a management role.
ManagementRoles == {"director", "manager", "supervisor"}

MayTransition(jobId, user) ==
  UserRole[user] \in ManagementRoles \/ jobs[jobId].assigned_worker_id = user

\* The order status a completed job of the type derives (4.2).
DerivedStatus(job_type) ==
  CASE job_type = "measuring" -> "measuring_completed"
    [] job_type = "delivery" -> "delivered"
    [] job_type = "installation" -> "installation_completed"

TerminalOrderStatuses == {"completed", "cancelled"}

\* The audit row the specification asks of a transition.
AuditRow(jobId, previous, new) ==
  [job_id |-> jobId, previous_status |-> previous, new_status |-> new]

\* C1: in every state the program reaches, a status-update request on a
\* stored job, made by a user allowed to make it, for a pair (current,
\* requested) that is no edge of the transition table is answered 400 with the
\* job's current status and exactly the table's allowed-next set, and leaves
\* the jobs (status and timestamps), the audit log and the orders as they were.
C1_InvalidTransitionRejected ==
  \A jobId \in DOMAIN jobs, user \in Users, status \in JobStatuses :
    (/\ MayTransition(jobId, user)
     /\ <<jobs[jobId].status, status>> \notin TransitionTable)
    => LET r == putJobStatus(jobId, user, status, "none")
       IN /\ r.response = [code |-> 400,
                           current_status |-> jobs[jobId].status,
                           valid_next_statuses |-> AllowedNext(jobs[jobId].status)]
          /\ r.jobs = jobs
          /\ r.statusUpdates = statusUpdates
          /\ r.orders = orders

\* An en_route job has just been refused a transition, with {arrived, cancelled}.
C1_Witness ==
  /\ response.code = 400
  /\ "current_status" \in DOMAIN response
  /\ response.current_status = "en_route"
  /\ response.valid_next_statuses = {"arrived", "cancelled"}
  /\ \E j \in DOMAIN jobs : jobs[j].status = "en_route"

\* C2: in every state the program reaches, a status-update request on a stored
\* job, made by a user allowed to make it and with no write failing, for an
\* edge (current, requested) of the transition table is answered 200, leaves
\* the job's stored status equal to requested, and appends exactly one audit
\* row, with previous_status = current and new_status = requested.
C2_ValidTransitionApplied ==
  \A jobId \in DOMAIN jobs, user \in Users, status \in JobStatuses :
    (/\ MayTransition(jobId, user)
     /\ <<jobs[jobId].status, status>> \in TransitionTable)
    => LET r == putJobStatus(jobId, user, status, "none")
       IN /\ r.response.code = 200
          /\ r.jobs[jobId].status = status
          /\ r.statusUpdates =
               Append(statusUpdates, AuditRow(jobId, jobs[jobId].status, status))

\* A job has just gone from arrived to in_progress, the audit log ending with that row.
C2_Witness ==
  /\ response.code = 200
  /\ "old_status" \in DOMAIN response
  /\ response.old_status = "arrived"
  /\ response.new_status = "in_progress"
  /\ \E j \in DOMAIN jobs :
       /\ jobs[j].status = "in_progress"
       /\ statusUpdates[Len(statusUpdates)] = AuditRow(j, "arrived", "in_progress")

\* C3: whatever request is handled, a change of a job's stored status goes
\* from a status to one of its allowed-next statuses in the transition table.
C3_StatusChangesFollowTable ==
  [][\A j \in DOMAIN jobs \cap DOMAIN jobs' :
       jobs'[j].status # jobs[j].status
         => <<jobs[j].status, jobs'[j].status>> \in TransitionTable]_vars

\* C4: a status-update request changes the job's stored status exactly when it
\* appends the audit row of that change, whichever of its writes fails.
C4_StatusWriteAtomicWithAudit ==
  [][\A jobId \in DOMAIN jobs, user \in Users, status \in JobStatuses, fault \in Faults :
       PutJobStatus(jobId, user, status, fault)
       => (jobs'[jobId].status # jobs[jobId].status
             <=> statusUpdates' =
                   Append(statusUpdates, AuditRow(jobId, jobs[jobId].status, status)))]_vars

\* C5: in every state the program reaches, a completed or cancelled job has an
\* empty allowed-next set, and every status-update request on it, whatever
\* status it asks for and whoever asks, is refused (400, or 403 for a user not
\* allowed to ask) and leaves the job, the audit log and the orders as they
\* were.
C5_TerminalJobsStay ==
  \A jobId \in DOMAIN jobs :
    jobs[jobId].status \in {"completed", "cancelled"}
    => /\ getNextValidStatuses(jobs[jobId]) = {}
       /\ \A user \in Users, status \in JobStatuses :
            LET r == putJobStatus(jobId, user, status, "none")
            IN /\ r.response.code = IF MayTransition(jobId, user) THEN 400 ELSE 403
               /\ r.jobs = jobs
               /\ r.statusUpdates = statusUpdates
               /\ r.orders = orders

\* A completed job has just been refused a transition, with the empty set.
C5_Witness ==
  /\ response.code = 400
  /\ "current_status" \in DOMAIN response
  /\ response.current_status = "completed"
  /\ response.valid_next_statuses = {}
  /\ \E j \in DOMAIN jobs : jobs[j].status = "completed"

\* C6: in every state the program reaches, a status-update request that
\* succeeds in taking a job into completed leaves the owning order's stored
\* status at measuring_completed for a measuring job, delivered for a delivery
\* job and installation_completed for an installation job.
C6_CompletionDerivesOrderStatus ==
  \A jobId \in DOMAIN jobs, user \in Users :
    LET r == putJobStatus(jobId, user, "completed", "none")
    IN r.response.code = 200
       => /\ r.jobs[jobId].status = "completed"
          /\ r.orders[jobs[jobId].order_id].status = DerivedStatus(jobs[jobId].job_type)

\* A delivery job has just been completed and its order, which was not
\* delivered, now is.
C6_Witness ==
  /\ response.code = 200
  /\ "order_was" \in DOMAIN response
  /\ response.new_status = "completed"
  /\ response.order_was # "delivered"
  /\ \E j \in DOMAIN jobs :
       /\ jobs[j].job_type = "delivery"
       /\ jobs[j].status = "completed"
       /\ orders[jobs[j].order_id].status = "delivered"

\* C7: in every state the program reaches, a status-update request that asks
\* for en_route, arrived, in_progress, cancelled or assigned, whether it
\* succeeds or one of its writes fails, and one that is rejected (400, 403,
\* 404), leaves every order as it was.
C7_OnlyCompletionDerives ==
  \A jobId \in JobIds, user \in Users, status \in JobStatuses, fault \in Faults :
    LET r == putJobStatus(jobId, user, status, fault)
    IN (/\ Reaches(jobId, user, status, fault)
        /\ status # "completed" \/ r.response.code \in {400, 403, 404})
       => r.orders = orders

\* A job has just been cancelled and its order still has the status the
\* handler had loaded, which is none of the derived ones.
C7_Witness ==
  /\ response.code = 200
  /\ "order_was" \in DOMAIN response
  /\ response.new_status = "cancelled"
  /\ response.order_was = "in_production"
  /\ \E j \in DOMAIN jobs :
       /\ jobs[j].status = "cancelled"
       /\ orders[jobs[j].order_id].status = "in_production"

\* C8: in every state the program reaches, a status-update request that
\* succeeds in completing a job writes the derived status over the owning
\* order's status whatever that status is; when the order is completed or
\* cancelled it is terminal no longer; nothing else of the order changes.
C8_CompletionOverwritesAnyOrderStatus ==
  \A jobId \in DOMAIN jobs, user \in Users :
    LET r == putJobStatus(jobId, user, "completed", "none")
        o == jobs[jobId].order_id
    IN r.response.code = 200
       => /\ r.orders =
               [orders EXCEPT ![o].status = DerivedStatus(jobs[jobId].job_type)]
          /\ orders[o].status \in TerminalOrderStatuses
               => r.orders[o].status \notin TerminalOrderStatuses

\* A job has just been completed on an order that was completed, and the order
\* is back at a derived status, its completion date still set.
C8_Witness ==
  /\ response.code = 200
  /\ "order_was" \in DOMAIN response
  /\ response.new_status = "completed"
  /\ response.order_was = "completed"
  /\ \E j \in DOMAIN jobs :
       /\ jobs[j].status = "completed"
       /\ orders[jobs[j].order_id].status = DerivedStatus(jobs[j].job_type)
       /\ orders[jobs[j].order_id].actual_completion_date # NULL

\* C9: in every state the program reaches, an order status update by a
\* management user validates no transition: on a stored order, whatever its
\* status, it is answered 200 and the stored status is the new one, for each
\* of the fifteen statuses; on an order that is not stored it is answered 404
\* and changes nothing.
C9_OrderStatusUnvalidated ==
  \A orderId \in OrderIds, user \in Users, status \in OrderStatuses :
    UserRole[user] \in ManagementRoles
    => LET r == putOrderStatus(orderId, user, status)
       IN IF orderId \in DOMAIN orders
            THEN /\ r.response.code = 200
                 /\ DOMAIN r.orders = DOMAIN orders
                 /\ r.orders[orderId].status = status
          ELSE r = Refuse(404, "Order not found")

\* An order that had been completed has just been set back to pending.
C9_Witness ==
  /\ response.code = 200
  /\ "new_status" \in DOMAIN response
  /\ "old_status" \notin DOMAIN response
  /\ response.new_status = "pending"
  /\ \E o \in DOMAIN orders :
       /\ orders[o].status = "pending"
       /\ orders[o].actual_completion_date # NULL

\* C10: when creating the notification fails during a job status transition,
\* the transition is applied all the same: the job's new status, its audit
\* row and, into completed, the derived order status.
C10_NotificationFailureHarmless ==
  [][\A jobId \in DOMAIN jobs, user \in Users, status \in JobStatuses :
       (/\ MayTransition(jobId, user)
        /\ <<jobs[jobId].status, status>> \in TransitionTable
        /\ PutJobStatus(jobId, user, status, "notification_create"))
       => /\ jobs'[jobId].status = status
          /\ statusUpdates' =
               Append(statusUpdates, AuditRow(jobId, jobs[jobId].status, status))
          /\ status = "completed"
               => orders'[jobs[jobId].order_id].status
                    = DerivedStatus(jobs[jobId].job_type)]_vars

\* A request that wrote nothing: jobs (status and timestamps), audit log and
\* orders as they were, and no notification created.
Untouched(r) ==
  /\ r.jobs = jobs
  /\ r.statusUpdates = statusUpdates
  /\ r.orders = orders
  /\ r.notified = <<>>

\* C11: in every state the program reaches, a status-update request on a
\* stored job from a user who is neither its assigned worker nor a director,
\* manager or supervisor is answered 403 and changes nothing (jobs, audit log,
\* orders, notifications); a request for a job that is not stored is answered
\* 404 and changes nothing.
C11_UnauthorizedOrMissingRefused ==
  \A jobId \in JobIds, user \in Users, status \in JobStatuses :
    LET r == putJobStatus(jobId, user, status, "none")
    IN IF ~JobExists(jobId) THEN r.response.code = 404 /\ Untouched(r)
       ELSE ~MayTransition(jobId, user) => r.response.code = 403 /\ Untouched(r)

\* A status-update request on a stored job has just been denied.
C11_Witness ==
  /\ response = [code |-> 403, error |-> "Access denied"]
  /\ jobs # <<>>
  /\ notified = <<>>

\* C12: whatever request is handled, every audit row stored before it is
\* stored after it, at its place and with its previous_status and new_status.
C12_AuditRowsKept ==
  [][/\ Len(statusUpdates') >= Len(statusUpdates)
     /\ \A i \in 1..Len(statusUpdates) : statusUpdates'[i] = statusUpdates[i]]_vars

\* C13: a job creation that succeeds stores the job with status assigned and
\* appends exactly one audit row for it (previous_status null, new_status
\* assigned), and in every state the program reaches each stored job has that
\* initial row.
C13_CreatedWithInitialRecord ==
  /\ \A user \in Users, order_id \in OrderIds, job_type \in JobTypes,
        assigned_worker_id \in Users \cup {NULL} :
       LET r == createJob(user, order_id, job_type, assigned_worker_id, "none")
       IN r.response.code = 201
          => /\ r.jobs[nextJobId].status = "assigned"
             /\ r.statusUpdates =
                  Append(statusUpdates, AuditRow(nextJobId, NoStatus, "assigned"))
  /\ \A j \in DOMAIN jobs :
       \E i \in 1..Len(statusUpdates) :
         statusUpdates[i] = AuditRow(j, NoStatus, "assigned")

\* The audit rows of a job, in creation order.
AuditLog(jobId) == SelectSeq(statusUpdates, LAMBDA row : row.job_id = jobId)

\* The rows the scenario leaves: the creation row, then one per transition.
ScenarioRows(jobId) ==
  <<AuditRow(jobId, NoStatus, "assigned"), AuditRow(jobId, "assigned", "en_route"),
    AuditRow(jobId, "en_route", "arrived"), AuditRow(jobId, "arrived", "in_progress"),
    AuditRow(jobId, "in_progress", "completed")>>

\* How far along the scenario a job of the status is.
ScenarioStep(status) ==
  CASE status = "assigned" -> 1
    [] status = "en_route" -> 2
    [] status = "arrived" -> 3
    [] status = "in_progress" -> 4
    [] status = "completed" -> 5

\* C14 (as the program behaves): in the end-to-end scenario the attempt to go
\* from en_route to in_progress is refused with the valid set {arrived,
\* cancelled} and the job stays en_route; the four other transitions succeed,
\* each appending its row after the creation row (null -> assigned), so that
\* the first transition's row (assigned -> en_route) is the job's second and
\* the job ends with 5 audit rows in total; at the end actual_start_time and
\* actual_end_time are both set and the order's status is the one derived from
\* the job type.
C14_ScenarioFiveRows ==
  \A j \in DOMAIN jobs :
    /\ jobs[j].status \in {"assigned", "en_route", "arrived", "in_progress", "completed"}
    /\ AuditLog(j) = SubSeq(ScenarioRows(j), 1, ScenarioStep(jobs[j].status))
    /\ response.code \in {200, 201, 400}
    /\ response.code = 400
         => /\ response.current_status = "en_route"
            /\ response.valid_next_statuses = {"arrived", "cancelled"}
            /\ jobs[j].status = "en_route"
    /\ response.code = 200 /\ "old_status" \in DOMAIN response
         => /\ response.new_status = jobs[j].status
            /\ <<response.old_status, response.new_status>> \in TransitionTable
    /\ jobs[j].status = "completed"
         => /\ jobs[j].actual_start_time # NULL
            /\ jobs[j].actual_end_time # NULL
            /\ orders[jobs[j].order_id].status = DerivedStatus(jobs[j].job_type)

\* The scenario has run to its end on an order that was in production: the
\* job is completed with five rows and the order has the derived status.
C14_Witness ==
  /\ response.code = 200
  /\ "order_was" \in DOMAIN response
  /\ response.new_status = "completed"
  /\ response.order_was = "in_production"
  /\ \E j \in DOMAIN jobs :
       /\ jobs[j].status = "completed"
       /\ Len(AuditLog(j)) = 5
       /\ orders[jobs[j].order_id].status = DerivedStatus(jobs[j].job_type)

\* C14 (as stated): at the end of the scenario the job has 4 audit rows in
\* total, the first of them assigned -> en_route, both timestamps are set and
\* the order's status is the derived one.
C14_ScenarioFourRows ==
  \A j \in DOMAIN jobs :
    jobs[j].status = "completed"
    => /\ Len(AuditLog(j)) = 4
       /\ AuditLog(j)[1] = AuditRow(j, "assigned", "en_route")
       /\ jobs[j].actual_start_time # NULL
       /\ jobs[j].actual_end_time # NULL
       /\ orders[jobs[j].order_id].status = DerivedStatus(jobs[j].job_type)

\* C15: in every state the program reaches, a status-update request with no
\* write failing leaves a job's actual_start_time at the current instant when
\* it succeeds in taking the job into in_progress with no start time set, and
\* as it was otherwise; and once the start time is set, no status-update
\* request changes it, whether it succeeds, is refused or has a write fail.
C15_StartTimeSetOnce ==
  \A jobId \in DOMAIN jobs, user \in Users, status \in JobStatuses :
    LET job == jobs[jobId]
        r == putJobStatus(jobId, user, status, "none")
    IN /\ r.jobs[jobId].actual_start_time =
            IF /\ r.response.code = 200
               /\ status = "in_progress"
               /\ job.actual_start_time = NULL
              THEN now
            ELSE job.actual_start_time
       /\ job.actual_start_time # NULL
            => \A fault \in Faults :
                 Reaches(jobId, user, status, fault)
                 => putJobStatus(jobId, user, status, fault).jobs[jobId].actual_start_time
                      = job.actual_start_time

\* A job that went into in_progress at instant 1 has just been completed at
\* instant 2, and its start time is still 1.
C15_Witness ==
  /\ response.code = 200
  /\ "old_status" \in DOMAIN response
  /\ response.new_status = "completed"
  /\ \E j \in DOMAIN jobs :
       /\ jobs[j].status = "completed"
       /\ jobs[j].actual_start_time = 1
       /\ jobs[j].actual_end_time = 2

\* C16: in every state the program reaches a completed job has both
\* actual_start_time and actual_end_time set, and a job's actual_start_time
\* becomes set only in a step that takes the job into in_progress.
C16_TimestampsMatchStatus ==
  /\ [](\A j \in DOMAIN jobs :
          jobs[j].status = "completed"
          => jobs[j].actual_start_time # NULL /\ jobs[j].actual_end_time # NULL)
  /\ [][\A j \in DOMAIN jobs \cap DOMAIN jobs' :
          jobs[j].actual_start_time = NULL /\ jobs'[j].actual_start_time # NULL
          => jobs'[j].status = "in_progress"]_vars

\* C17: a DELETE of a stored job whose status is not assigned, by a
\* management user, is answered 400 and leaves the job stored; and whatever
\* request is handled, a job that is no longer stored after it had the status
\* assigned before it.
C17_OnlyAssignedJobsRemoved ==
  /\ [](\A jobId \in DOMAIN jobs, user \in Users :
          jobs[jobId].status # "assigned" /\ UserRole[user] \in ManagementRoles
          => LET r == deleteJob(jobId, user, "ok")
             IN r.response.code = 400 /\ r.jobs = jobs)
  /\ [][\A j \in DOMAIN jobs \ DOMAIN jobs' : jobs[j].status = "assigned"]_vars

\* C20: in every state the program reaches, an order status update by a
\* management user on a stored order leaves actual_completion_date at the
\* current date when the new status is completed and as it was for every other
\* new status, and creates exactly one notification, of type status_update,
\* for the user of the order's client, about the order.
C20_CompletionDateAndNotification ==
  \A orderId \in DOMAIN orders, user \in Users, status \in OrderStatuses :
    UserRole[user] \in ManagementRoles
    => LET r == putOrderStatus(orderId, user, status)
       IN /\ r.orders[orderId].actual_completion_date =
               IF status = "completed" THEN now
               ELSE orders[orderId].actual_completion_date
          /\ r.notified =
               <<[user_id |-> ClientUser[orders[orderId].client_id],
                  type |-> "status_update",
                  related_job_id |-> NULL, related_order_id |-> orderId]>>

\* An order completed at instant 1 has been set to in_delivery and, at
\* instant 2, still has completion date 1; the client's user was notified.
C20_Witness ==
  /\ now = 2
  /\ response.code = 200
  /\ "new_status" \in DOMAIN response
  /\ response.new_status = "in_delivery"
  /\ Len(notified) = 1
  /\ notified[1].type = "status_update"
  /\ \E o \in DOMAIN orders :
       /\ orders[o].status = "in_delivery"
       /\ orders[o].actual_completion_date = 1
       /\ notified[1].related_order_id = o

\* C18: a DELETE of a stored order whose status is not pending, by a director
\* or manager, is answered 400 and leaves the order stored; and whatever
\* request is handled, an order that is no longer stored after it had the
\* status pending before it.
C18_OnlyPendingOrdersRemoved ==
  /\ [](\A orderId \in DOMAIN orders, user \in Users :
          orders[orderId].status # "pending" /\ UserRole[user] \in {"director", "manager"}
          => LET r == deleteOrder(orderId, user, "ok")
             IN r.response.code = 400 /\ r.orders = orders)
  /\ [][\A o \in DOMAIN orders \ DOMAIN orders' : orders[o].status = "pending"]_vars

\* C19: in every state the program reaches, two order creations that have
\* both counted the same stored rows and have not yet inserted hold the same
\* order number.
C19_InterleavedCreationsCollide ==
  \A p \in DOMAIN creating, q \in DOMAIN creating :
    (/\ p # q
     /\ creating[p].counted = creating[q].counted)
    => creating[p].order.order_number = creating[q].order.order_number

\* Two creations are between their hook and their INSERT, with one number.
C19_Witness ==
  \E p \in DOMAIN creating, q \in DOMAIN creating :
    /\ p # q
    /\ creating[p].id # creating[q].id
    /\ creating[p].order.order_number = creating[q].order.order_number

\* The order of the statuses along which an order progresses.
ProgressSequence ==
  <<"pending", "measuring_scheduled", "measuring_in_progress", "measuring_completed",
    "production_scheduled", "in_production", "production_completed",
    "delivery_scheduled", "in_delivery", "delivered",
    "installation_scheduled", "installation_in_progress", "installation_completed",
    "completed">>

\* C21: getProgressPercentage gives an integer in 0..100 for each of the 15
\* order statuses and for every stored order, 0 for cancelled and 100 for
\* completed, and it does not decrease along the sequence pending,
\* measuring_scheduled, ..., installation_completed, completed.
C21_ProgressPercentage ==
  /\ \A status \in OrderStatuses : getProgressPercentage([status |-> status]) \in 0..100
  /\ \A o \in DOMAIN orders : getProgressPercentage(orders[o]) \in 0..100
  /\ getProgressPercentage([status |-> "cancelled"]) = 0
  /\ getProgressPercentage([status |-> "completed"]) = 100
  /\ \A i \in 1..(Len(ProgressSequence) - 1) :
       getProgressPercentage([status |-> ProgressSequence[i]])
         <= getProgressPercentage([status |-> ProgressSequence[i + 1]])

\* A stored order has been taken to completed and is 100 percent done.
C21_Witness ==
  \E o \in DOMAIN orders :
    /\ orders[o].status = "completed"
    /\ getProgressPercentage(orders[o]) = 100
    /\ response.code = 200

\* The rows are rows of the log, in this order.
ContainsInOrder(log, rows) ==
  \E at \in [1..Len(rows) -> 1..Len(log)] :
    /\ \A i \in 1..Len(rows) : log[at[i]] = rows[i]
    /\ \A i \in 1..(Len(rows) - 1) : at[i] < at[i + 1]

\* C22: the audit log of every completed job contains the transitions
\* assigned -> en_route, en_route -> arrived, arrived -> in_progress and
\* in_progress -> completed in this order, and cancelled is an allowed next
\* status of a job in each of the four non-terminal statuses.
C22_CompletedAfterFullPath ==
  /\ \A j \in DOMAIN jobs :
       jobs[j].status = "completed"
       => ContainsInOrder(AuditLog(j),
            <<AuditRow(j, "assigned", "en_route"), AuditRow(j, "en_route", "arrived"),
              AuditRow(j, "arrived", "in_progress"), AuditRow(j, "in_progress", "completed")>>)
  /\ \A status \in {"assigned", "en_route", "arrived", "in_progress"} :
       "cancelled" \in getNextValidStatuses([status |-> status])

\* C23: in every state reached by creating orders one after the other and
\* deleting pending ones, an order creation that passes validation succeeds
\* (201) and stores an order whose number no order stored before it has.
C23_SequentialNumbersUnique ==
  \A user \in Users, client_id \in ReqClientIds :
    createOrderChecks(user, client_id) = Kept
    => LET r == createOrder(user, client_id)
       IN /\ r.response.code = 201
          /\ \A o \in DOMAIN orders :
               orders[o].order_number # orderNumber(nextOrderId, orderCount)

\* No status-update request for the job is under way.
Settled(jobId) == \A p \in DOMAIN updating : updating[p].jobId # jobId

\* C25: in every reachable state, for each job that no status-update request
\* is under way for, the audit records in creation order form a chain: the
\* first has previous_status null and new_status assigned, each later
\* record's previous_status is the preceding record's new_status, and the last
\* record's new_status is the job's stored status; status-update requests for
\* the same job may be handled at the same time.
C25_AuditChain ==
  \A j \in DOMAIN jobs :
    Settled(j)
    => LET log == AuditLog(j)
       IN /\ Len(log) >= 1
          /\ log[1] = AuditRow(j, NoStatus, "assigned")
          /\ \A i \in 2..Len(log) : log[i].previous_status = log[i - 1].new_status
          /\ log[Len(log)].new_status = jobs[j].status

\* C26: with status-update requests for the same job handled at the same
\* time, no step takes a job's stored status out of completed or cancelled,
\* and no step changes the status of the order of a job that is cancelled.
C26_TerminalStatusKept ==
  [][\A j \in DOMAIN jobs :
       /\ jobs[j].status \in {"completed", "cancelled"} => jobs'[j].status = jobs[j].status
       /\ jobs[j].status = "cancelled"
            => orders'[jobs[j].order_id].status = orders[jobs[j].order_id].status]_vars

\* C24: in every reachable state, a login request with the correct password
\* of a stored user, identified by email, phone number or username, is
\* answered 200 with a token, stores exactly one more session, the one of the
\* hash of that token, and leaves the token accepted by authenticateToken.
C24_LoginSucceeds ==
  \A u \in users, attribute \in LoginAttributes, password \in Passwords :
    compare(password, passwords[u])
    => LET r == login(Attribute(u, attribute), password)
       IN /\ r.response.code = 200
          /\ r.sessions = sessions \cup {createForUser(u, hashToken(r.response.token))}
          /\ r.sessions # sessions

\* C27: in every reachable state, a token that a logout has answered 200 for,
\* and every token of a session of the user that a logout-all has answered
\* 200 for, is refused with 401 by authenticateToken, whether or not the JWT
\* has expired.
C27_LoggedOutTokensRejected ==
  \A token \in loggedOut : authenticateToken(token).code = 401

\* A request with a token that was logged out and whose JWT has not expired
\* has just been answered 401 for having no session, while another session
\* is still stored.
C27_Witness ==
  /\ response = [code |-> 401, error |-> "Invalid or expired session"]
  /\ sessions # {}
  /\ \E token \in loggedOut :
       /\ now < token.exp
       /\ authenticateToken(token) = response

\* C28: in every reachable state no reset token has been redeemed more than
\* once, reset-password requests with the same token being handled at the
\* same time or not; and the step in which a reset-password request answers
\* 200 leaves no session of the token's user.
C28_ResetTokenRedeemedOnce ==
  /\ [](\A token \in DOMAIN redeemed : redeemed[token] <= 1)
  /\ [][\A token \in DOMAIN resetTokens :
          Redeemed(token)' > Redeemed(token)
          => \A s \in sessions' : s.user_id # resetTokens[token].user_id]_vars

\* C29: in every reachable state, for every reset code that forgot-password
\* has delivered and whose token is neither expired nor used, a
\* reset-password request with the code as its token and a valid password is
\* answered 200 and sets the password of the user the code was sent to.
C29_DeliveredCodeAccepted ==
  \A m \in sent :
    (/\ m.token \in DOMAIN resetTokens
     /\ ~resetTokens[m.token].used
     /\ resetTokens[m.token].expires_at > now)
    => LET r == resetPassword(m.code, "N3wPassw")
       IN /\ r.response.code = 200
          /\ r.passwords[m.user_id] = hash("N3wPassw")

\* The number of requests of the key passed on at a time after from, up to to.
PassedWithin(key, from, to) ==
  Cardinality({i \in DOMAIN Get(limiter.passed, key) :
                 from < limiter.passed[key][i] /\ limiter.passed[key][i] <= to})

\* C30: in every reachable state of a limiter built by
\* createRateLimiter(windowMs, max), for every key: in every span of windowMs
\* instants (after end - windowMs, up to end) at most max requests of the key
\* were passed on; a request of the key made now is answered 429 exactly when
\* max requests of the key were passed on in the last windowMs instants; and
\* a request that is answered 429 is not counted.
C30_RateLimited ==
  limiter # NoLimiter
  => \A key \in Keys :
       /\ \A end \in 0..now : PassedWithin(key, end - limiter.windowMs, end) <= limiter.max
       /\ rateLimit(key).response.code = 429
            <=> PassedWithin(key, now - limiter.windowMs, now) = limiter.max
       /\ rateLimit(key).response.code = 429
            => /\ rateLimit(key).limiter.passed = limiter.passed
               /\ Get(rateLimit(key).limiter.attempts, key) = Get(limiter.attempts, key)
       /\ rateLimit(key).response.code # 429
            => /\ rateLimit(key).response.code = 0
               /\ Len(Get(rateLimit(key).limiter.passed, key))
                    = Len(Get(limiter.passed, key)) + 1

\* A request has just been answered 429 for a key that had max requests
\* passed on in the window, after requests of the key made more than a
\* window ago had been passed on too.
C30_Witness ==
  /\ limiter # NoLimiter
  /\ response.code = 429
  /\ \E key \in Keys :
       /\ PassedWithin(key, now - limiter.windowMs, now) = limiter.max
       /\ Len(Get(limiter.passed, key)) > limiter.max
====
